---- MODULE Spec2Model ----
(***************************************************************************)
(* ESP32 BMP280 + MPU6050 web server with persistent calibration, LCD and  *)
(* IR alert (src/unnamed/part_002, lines 1-575).                           *)
(*                                                                         *)
(* Numbers.  A float is modelled as an integer count of equal steps; the   *)
(* accelerometer scale is fixed by Half (0.5f) and One (1.0f).  The cast   *)
(* (float)(sum / samples) is modelled as rounding to the nearest step,     *)
(* ties to even.  String(x, n) is modelled as rounding to a decimal grid   *)
(* that is coarser than the float steps.                                   *)
(***************************************************************************)
EXTENDS Integers, Sequences, FiniteSets, TLC

VARIABLES
    pc,            \* position of the single control thread
    accOffX, accOffY, accOffZ,     \* active bias model, accelerometer
    gyrOffX, gyrOffY, gyrOffZ,     \* active bias model, gyroscope
    offsetsLoaded,
    bmp_ok,
    lastIrActive, irActive,
    sinceLcd,      \* millis() - lcd_last, saturated above LCD_UPDATE_TICKS
    prefs,         \* NVS namespace "mpu": key -> <<>> (absent) or <<value>>
    lcd,           \* what kind of content the display shows
    drawn,         \* the lines the last step wrote to the display, if it wrote
    snap,          \* the SensorReading the last step composed, with its raw sample
    cal,           \* locals of the running handleCalibrate / doAveragingCalibration
    saveIdx,       \* number of put calls saveOffsetsToPrefs has made
    resp,          \* the HTTP response the last step sent, if it sent one
    ev,            \* the observable calls of the last step, in order
    readLog,       \* keys read by the last loadOffsetsFromPrefs
    writeLog,      \* the put calls of the saveOffsetsToPrefs of the current request
    hist           \* history: counters and values used to state properties

vars == <<pc, accOffX, accOffY, accOffZ, gyrOffX, gyrOffY, gyrOffZ,
          offsetsLoaded, bmp_ok, lastIrActive, irActive, sinceLcd, prefs,
          lcd, drawn, snap, cal, saveIdx, resp, ev, readLog, writeLog, hist>>

biasVars == <<accOffX, accOffY, accOffZ, gyrOffX, gyrOffY, gyrOffZ>>

irVars == <<lastIrActive, irActive>>

-----------------------------------------------------------------------------
(* Bounds of the model *)

\* samples per calibration run (800 in the source)
SAMPLES == 2
\* the largest sample count doAveragingCalibration is called with on its own
MaxCount == 3

\* environment events per behaviour: calibration requests, power losses and
\* refused NVS writes together
MaxEvents == 3

-----------------------------------------------------------------------------
(* Program constants *)

\* LCD_UPDATE_MS in passes of loop() (1000 ms against delay(20) in the source)
LCD_UPDATE_TICKS == 1

\* 0.5f, the sanity threshold, in float steps
Half == 2

\* 1.0f, the expected accZ when flat
One == 2 * Half

\* compiled-in default offsets, in float steps
DefAccOffX == 1
DefAccOffY == 0
DefAccOffZ == -1
DefGyrOffX == 3
DefGyrOffY == 4
DefGyrOffZ == 5

\* float steps per decimal step of String(x, 6) and String(x, 4)
AccDecStep == 2
GyrDecStep == 3

\* float steps per decimal step of String(x, 3) and String(x, 2) in handleData
DataAccDecStep == 4
EnvDecStep == 1

Defaults ==
    [ax |-> DefAccOffX, ay |-> DefAccOffY, az |-> DefAccOffZ,
     gx |-> DefGyrOffX, gy |-> DefGyrOffY, gz |-> DefGyrOffZ]

\* the active bias model as one record
Bias ==
    [ax |-> accOffX, ay |-> accOffY, az |-> accOffZ,
     gx |-> gyrOffX, gy |-> gyrOffY, gz |-> gyrOffZ]

-----------------------------------------------------------------------------
(* Arithmetic helpers *)

Abs(x) == IF x < 0 THEN -x ELSE x

\* nearest integer to s / n, ties to even: (float)(s / n)
RoundDiv(s, n) ==
    LET q == s \div n
        r == s - q * n
    IN  IF 2 * r < n THEN q
        ELSE IF 2 * r > n THEN q + 1
        ELSE IF q % 2 = 0 THEN q ELSE q + 1

\* String(x, decimals): x rounded to the decimal grid of `step` float steps
StringDec(x, step) == RoundDiv(x, step) * step

-----------------------------------------------------------------------------
(* The environment: what the sensors may return *)

\* one mpu.update(): accelerometer (g) and gyroscope (deg/s) triples.
\* Level: flat and unbiased.  Biased: flat, with the default bias on every
\* channel.  Inverted: upside down, with another bias.
Level    == [ax |-> 0, ay |-> 0, az |-> One, gx |-> 0, gy |-> 0, gz |-> 0]
Biased   == [ax |-> DefAccOffX, ay |-> DefAccOffY, az |-> One + DefAccOffZ,
             gx |-> DefGyrOffX, gy |-> DefGyrOffY, gz |-> DefGyrOffZ]
Inverted == [ax |-> 1, ay |-> -1, az |-> -One, gx |-> 3, gy |-> 4, gz |-> 6]

RawSamples == {Level, Biased, Inverted}

\* one BMP280 reading: temperature (C), pressure (Pa), altitude (m)
EnvReadings == { [t |-> 0, p |-> 0, a |-> 0], [t |-> 25, p |-> 101300, a |-> 12] }

\* fused yaw of the library
AngleZVals == {0}

-----------------------------------------------------------------------------
(* Preferences (NVS) *)

FloatKeys == <<"ax", "ay", "az", "gx", "gy", "gz">>

Keys == {"ax", "ay", "az", "gx", "gy", "gz", "ok"}

EmptyPrefs == [k \in Keys |-> <<>>]

\* prefs.getFloat(key, default), prefs.getBool(key, default)
PrefsGet(store, key, default) ==
    IF store[key] = <<>> THEN default ELSE store[key][1]

\* prefs.putFloat(key, v), prefs.putBool(key, v); written = FALSE when the
\* medium refuses the write (the call returns 0 and the key keeps its value)
PrefsPut(store, key, v, written) ==
    IF written THEN [store EXCEPT ![key] = <<v>>] ELSE store

-----------------------------------------------------------------------------
(* loadOffsetsFromPrefs, lines 84-96, as a function of the store and of the *)
(* offsets in memory.  keys: the keys read, in order.                       *)

\* a variant that reads "gx" for gyrOffY as well
LoadOffsetsWrongKey(store, cur) ==
    IF PrefsGet(store, "ok", FALSE)
    THEN [ax |-> PrefsGet(store, "ax", cur.ax),
          ay |-> PrefsGet(store, "ay", cur.ay),
          az |-> PrefsGet(store, "az", cur.az),
          gx |-> PrefsGet(store, "gx", cur.gx),
          gy |-> PrefsGet(store, "gx", cur.gy),
          gz |-> PrefsGet(store, "gz", cur.gz),
          loaded |-> TRUE,
          keys |-> <<"ok", "ax", "ay", "az", "gx", "gx", "gz">>]
    ELSE [ax |-> cur.ax, ay |-> cur.ay, az |-> cur.az,
          gx |-> cur.gx, gy |-> cur.gy, gz |-> cur.gz,
          loaded |-> FALSE,
          keys |-> <<"ok">>]

\* a variant that reads the fields without looking at the marker
LoadOffsetsNoMarker(store, cur) ==
    [ax |-> PrefsGet(store, "ax", cur.ax),
     ay |-> PrefsGet(store, "ay", cur.ay),
     az |-> PrefsGet(store, "az", cur.az),
     gx |-> PrefsGet(store, "gx", cur.gx),
     gy |-> PrefsGet(store, "gy", cur.gy),
     gz |-> PrefsGet(store, "gz", cur.gz),
     loaded |-> TRUE,
     keys |-> <<"ax", "ay", "az", "gx", "gy", "gz">>]

LoadOffsets(store, cur) ==
    IF PrefsGet(store, "ok", FALSE)
    THEN [ax |-> PrefsGet(store, "ax", cur.ax),
          ay |-> PrefsGet(store, "ay", cur.ay),
          az |-> PrefsGet(store, "az", cur.az),
          gx |-> PrefsGet(store, "gx", cur.gx),
          gy |-> PrefsGet(store, "gy", cur.gy),
          gz |-> PrefsGet(store, "gz", cur.gz),
          loaded |-> TRUE,
          keys |-> <<"ok", "ax", "ay", "az", "gx", "gy", "gz">>]
    ELSE [ax |-> cur.ax, ay |-> cur.ay, az |-> cur.az,
          gx |-> cur.gx, gy |-> cur.gy, gz |-> cur.gz,
          loaded |-> FALSE,
          keys |-> <<"ok">>]

\* a variant that sets the marker before the fields
SavePutMarkerFirst(k, m) ==
    << [key |-> "ok", val |-> TRUE],
       [key |-> "ax", val |-> m.ax],
       [key |-> "ay", val |-> m.ay],
       [key |-> "az", val |-> m.az],
       [key |-> "gx", val |-> m.gx],
       [key |-> "gy", val |-> m.gy],
       [key |-> "gz", val |-> m.gz] >>[k]

\* a variant that stores accOffY under "az" as well
SavePutWrongField(k, m) ==
    << [key |-> "ax", val |-> m.ax],
       [key |-> "ay", val |-> m.ay],
       [key |-> "az", val |-> m.ay],
       [key |-> "gx", val |-> m.gx],
       [key |-> "gy", val |-> m.gy],
       [key |-> "gz", val |-> m.gz],
       [key |-> "ok", val |-> TRUE] >>[k]

\* a variant that never stores gyrOffZ
SavePutWithoutGz(k, m) ==
    << [key |-> "ax", val |-> m.ax],
       [key |-> "ay", val |-> m.ay],
       [key |-> "az", val |-> m.az],
       [key |-> "gx", val |-> m.gx],
       [key |-> "gy", val |-> m.gy],
       [key |-> "gy", val |-> m.gy],
       [key |-> "ok", val |-> TRUE] >>[k]

\* saveOffsetsToPrefs, lines 74-80: the k-th put call, key and value, when
\* the offsets in memory are m
SavePut(k, m) ==
    << [key |-> "ax", val |-> m.ax],
       [key |-> "ay", val |-> m.ay],
       [key |-> "az", val |-> m.az],
       [key |-> "gx", val |-> m.gx],
       [key |-> "gy", val |-> m.gy],
       [key |-> "gz", val |-> m.gz],
       [key |-> "ok", val |-> TRUE] >>[k]

\* the number of put calls of one saveOffsetsToPrefs
SavePuts == 7

-----------------------------------------------------------------------------
(* doAveragingCalibration, lines 99-150 *)

ZeroSums == [sAx |-> 0, sAy |-> 0, sAz |-> 0, sGx |-> 0, sGy |-> 0, sGz |-> 0]

\* lines 117-122: one sample added to the running sums
Accumulate(s, r) ==
    [sAx |-> s.sAx + r.ax, sAy |-> s.sAy + r.ay, sAz |-> s.sAz + r.az,
     sGx |-> s.sGx + r.gx, sGy |-> s.sGy + r.gy, sGz |-> s.sGz + r.gz]

\* lines 127-133: the per-channel means
Means(s, samples) ==
    [ax |-> RoundDiv(s.sAx, samples), ay |-> RoundDiv(s.sAy, samples),
     az |-> RoundDiv(s.sAz, samples), gx |-> RoundDiv(s.sGx, samples),
     gy |-> RoundDiv(s.sGy, samples), gz |-> RoundDiv(s.sGz, samples)]

\* a variant that leaves gravity in the Z offset
CalOutputsKeepGravity(mean) ==
    [ax |-> mean.ax - 0, ay |-> mean.ay - 0, az |-> mean.az,
     gx |-> mean.gx, gy |-> mean.gy, gz |-> mean.gz]

\* lines 135-142: the outputs
CalOutputs(mean) ==
    [ax |-> mean.ax - 0, ay |-> mean.ay - 0, az |-> mean.az - One,
     gx |-> mean.gx, gy |-> mean.gy, gz |-> mean.gz]

\* a variant that tests the offset instead of the mean
SanityOkOnOffset(mean) == ~(Abs(mean.az - One) < Half)

\* a variant that accepts only a positive mean
SanityOkPositiveOnly(mean) == ~(mean.az < Half)

\* lines 144-149: the return value
SanityOk(mean) == ~(Abs(mean.az) < Half)

-----------------------------------------------------------------------------
(* readSensors, lines 153-196 *)

Sgn(x) == IF x > 0 THEN 1 ELSE IF x < 0 THEN -1 ELSE 0

\* atan2(y, x) * 180 / PI for x of sign xs and square x2: exact on the axes
\* and diagonals, the middle of the 45 degree sector otherwise
Atan2Of(y, xs, x2) ==
    LET y2 == y * y
        up == IF xs > 0 THEN (IF y2 < x2 THEN 22 ELSE IF y2 = x2 THEN 45 ELSE 67)
              ELSE IF xs = 0 THEN 90
              ELSE (IF y2 > x2 THEN 112 ELSE IF y2 = x2 THEN 135 ELSE 157)
    IN  IF y = 0 THEN (IF xs >= 0 THEN 0 ELSE 180)
        ELSE IF y > 0 THEN up ELSE -up

Atan2Deg(y, x) == Atan2Of(y, Sgn(x), x * x)

\* a variant that adds the offsets
ReadSensorsAdding(raw, env, yaw) ==
    LET corrAx == raw.ax + accOffX
        corrAy == raw.ay + accOffY
        corrAz == raw.az + accOffZ
        s      == corrAy * corrAy + corrAz * corrAz
    IN  [temperature |-> IF bmp_ok THEN env.t ELSE 0,
         pressure    |-> IF bmp_ok THEN RoundDiv(env.p, 100) ELSE 0,
         altitude    |-> IF bmp_ok THEN env.a ELSE 0,
         angleX |-> Atan2Deg(corrAy, corrAz),
         angleY |-> Atan2Of(-corrAx, Sgn(s), s),
         angleZ |-> yaw,
         accX |-> corrAx, accY |-> corrAy, accZ |-> corrAz]

\* raw: the sample mpu.update() fetched; env: what the BMP280 returns;
\* yaw: mpu.getAngleZ().  esp_ms is left out.
ReadSensors(raw, env, yaw) ==
    LET corrAx == raw.ax - accOffX
        corrAy == raw.ay - accOffY
        corrAz == raw.az - accOffZ
        s      == corrAy * corrAy + corrAz * corrAz
    IN  [temperature |-> IF bmp_ok THEN env.t ELSE 0,
         pressure    |-> IF bmp_ok THEN RoundDiv(env.p, 100) ELSE 0,
         altitude    |-> IF bmp_ok THEN env.a ELSE 0,
         angleX |-> Atan2Deg(corrAy, corrAz),
         angleY |-> Atan2Of(-corrAx, Sgn(s), s),
         angleZ |-> yaw,
         accX |-> corrAx, accY |-> corrAy, accZ |-> corrAz]

-----------------------------------------------------------------------------
(* Display, responses, locals *)

\* showIrAlert, lines 401-415
AlertLines == [line0 |-> "IR Triggered", line1 |-> "Alert !!!"]

\* restoreNormalDisplay lines 423-435 and updateLCD lines 439-454 draw the same lines
TelemetryLines(s) ==
    [t |-> s.temperature, a |-> s.altitude, angleX |-> s.angleX, angleY |-> s.angleY]

NoResp == [kind |-> "none"]

ZeroModel == [ax |-> 0, ay |-> 0, az |-> 0, gx |-> 0, gy |-> 0, gz |-> 0]

\* the locals of handleCalibrate before doAveragingCalibration runs, lines 358-360
NoCal ==
    [n |-> SAMPLES, i |-> 0, sums |-> ZeroSums, mean |-> ZeroModel, out |-> ZeroModel,
     ok |-> FALSE, done |-> FALSE, first |-> <<>>, same |-> TRUE]

InitHist ==
    [events |-> 0, snaps |-> 0,
     pre |-> <<>>, dirty |-> FALSE, lastSaved |-> <<>>, completed |-> {},
     installed |-> Defaults, saveFailed |-> FALSE, refused |-> FALSE]

\* one readSensors call: the reading with the raw sample it was composed from
Composed(raw, r) == <<[raw |-> raw, out |-> r]>>

-----------------------------------------------------------------------------
(* Initial state: the globals as the program text initialises them, lines  *)
(* 43-58 and 397-398, an empty store, and control at the top of setup().   *)

Init ==
    /\ pc = "setup_init"
    /\ accOffX = DefAccOffX /\ accOffY = DefAccOffY /\ accOffZ = DefAccOffZ
    /\ gyrOffX = DefGyrOffX /\ gyrOffY = DefGyrOffY /\ gyrOffZ = DefGyrOffZ
    /\ offsetsLoaded = FALSE
    /\ bmp_ok = FALSE
    /\ lastIrActive = FALSE /\ irActive = FALSE
    /\ sinceLcd = 0
    /\ prefs = EmptyPrefs
    /\ lcd = "off"
    /\ drawn = <<>>
    /\ snap = <<>>
    /\ cal = NoCal
    /\ saveIdx = 0
    /\ resp = NoResp
    /\ ev = <<>>
    /\ readLog = <<>>
    /\ writeLog = <<>>
    /\ hist = InitHist

-----------------------------------------------------------------------------
(* setup(), lines 457-542 *)

\* lines 458-484: serial, I2C, bmp.begin, mpu.begin
SetupInit ==
    /\ pc = "setup_init"
    /\ bmp_ok' \in BOOLEAN
    /\ pc' = "setup_load"
    /\ ev' = <<"bmp.begin", "mpu.begin">>
    /\ drawn' = <<>> /\ snap' = <<>> /\ resp' = NoResp
    /\ UNCHANGED <<biasVars, offsetsLoaded, irVars, sinceLcd, prefs, lcd, cal,
                   saveIdx, readLog, writeLog, hist>>

\* a variant of setup() that does not load the stored offsets
SetupWithoutLoad ==
    /\ pc = "setup_load"
    /\ pc' = "setup_lcd"
    /\ ev' = <<>>
    /\ drawn' = <<>> /\ snap' = <<>> /\ resp' = NoResp
    /\ UNCHANGED <<biasVars, offsetsLoaded, bmp_ok, irVars, sinceLcd, prefs, lcd, cal,
                   saveIdx, readLog, writeLog, hist>>

\* lines 486-494: loadOffsetsFromPrefs and the report on Serial
SetupLoad ==
    /\ pc = "setup_load"
    /\ LET r == LoadOffsets(prefs, Bias)
       IN  /\ accOffX' = r.ax /\ accOffY' = r.ay /\ accOffZ' = r.az
           /\ gyrOffX' = r.gx /\ gyrOffY' = r.gy /\ gyrOffZ' = r.gz
           /\ offsetsLoaded' = (offsetsLoaded \/ r.loaded)
           /\ readLog' = r.keys
           /\ hist' = [hist EXCEPT !.installed =
                          [ax |-> r.ax, ay |-> r.ay, az |-> r.az,
                           gx |-> r.gx, gy |-> r.gy, gz |-> r.gz]]
    /\ pc' = "setup_lcd"
    /\ ev' = <<"loadOffsetsFromPrefs">>
    /\ drawn' = <<>> /\ snap' = <<>> /\ resp' = NoResp
    /\ UNCHANGED <<bmp_ok, irVars, sinceLcd, prefs, lcd, cal, saveIdx, writeLog>>

\* lines 496-532: LCD init and boot message, Wi-Fi, routes; the time this
\* takes is not fixed (Wi-Fi), so millis() - lcd_last is any value after it
SetupLcd ==
    /\ pc = "setup_lcd"
    /\ lcd' = "blank"
    /\ sinceLcd' \in 1..(LCD_UPDATE_TICKS + 1)
    /\ pc' = "setup_ir"
    /\ ev' = <<"lcd.init", "lcd.write", "lcd.clear", "server.begin">>
    /\ drawn' = <<>> /\ snap' = <<>> /\ resp' = NoResp
    /\ UNCHANGED <<biasVars, offsetsLoaded, bmp_ok, irVars, prefs, cal, saveIdx,
                   readLog, writeLog, hist>>

\* a variant that starts the arbiter in Normal whatever the pin says
SetupIrForcedNormal ==
    /\ pc = "setup_ir"
    /\ \E level \in BOOLEAN :
         /\ lastIrActive' = FALSE
         /\ IF level
            THEN /\ lcd' = "alert"
                 /\ drawn' = <<AlertLines>>
                 /\ snap' = <<>>
                 /\ ev' = <<"showIrAlert", "lcd.write">>
                 /\ hist' = hist
            ELSE \E raw \in RawSamples, env \in EnvReadings, yaw \in AngleZVals :
                   LET s == ReadSensors(raw, env, yaw)
                   IN  /\ lcd' = "telemetry"
                       /\ drawn' = <<TelemetryLines(s)>>
                       /\ snap' = Composed(raw, s)
                       /\ ev' = <<"restoreNormalDisplay", "mpu.update", "readSensors", "lcd.write">>
                       /\ hist' = [hist EXCEPT !.snaps = 1]
    /\ pc' = "loop_top"
    /\ resp' = NoResp
    /\ UNCHANGED <<biasVars, offsetsLoaded, bmp_ok, irActive, sinceLcd, prefs, cal,
                   saveIdx, readLog, writeLog>>

\* lines 534-541: the arbiter's initial state and the first drawing
SetupIr ==
    /\ pc = "setup_ir"
    /\ \E level \in BOOLEAN :
         /\ lastIrActive' = level
         /\ IF level
            THEN /\ lcd' = "alert"
                 /\ drawn' = <<AlertLines>>
                 /\ snap' = <<>>
                 /\ ev' = <<"showIrAlert", "lcd.write">>
                 /\ hist' = hist
            ELSE \E raw \in RawSamples, env \in EnvReadings, yaw \in AngleZVals :
                   LET s == ReadSensors(raw, env, yaw)
                   IN  /\ lcd' = "telemetry"
                       /\ drawn' = <<TelemetryLines(s)>>
                       /\ snap' = Composed(raw, s)
                       /\ ev' = <<"restoreNormalDisplay", "mpu.update", "readSensors", "lcd.write">>
                       /\ hist' = [hist EXCEPT !.snaps = 1]
    /\ pc' = "loop_top"
    /\ resp' = NoResp
    /\ UNCHANGED <<biasVars, offsetsLoaded, bmp_ok, irActive, sinceLcd, prefs, cal,
                   saveIdx, readLog, writeLog>>

-----------------------------------------------------------------------------
(* loop(), lines 544-575 *)

\* a variant that draws the alert in every pass in which the pin is active
LoopTopLevelTriggered ==
    /\ pc = "loop_top"
    /\ \E level \in BOOLEAN :
         /\ irActive' = level
         /\ lastIrActive' = level
         /\ IF level
            THEN /\ lcd' = "alert"
                 /\ drawn' = <<AlertLines>>
                 /\ snap' = <<>>
                 /\ ev' = <<"mpu.update", "showIrAlert", "lcd.write">>
                 /\ hist' = hist
            ELSE IF level = lastIrActive
            THEN /\ lcd' = lcd
                 /\ drawn' = <<>>
                 /\ snap' = <<>>
                 /\ ev' = <<"mpu.update">>
                 /\ hist' = hist
            ELSE \E raw \in RawSamples, env \in EnvReadings, yaw \in AngleZVals :
                   LET s == ReadSensors(raw, env, yaw)
                   IN  /\ lcd' = "telemetry"
                       /\ drawn' = <<TelemetryLines(s)>>
                       /\ snap' = Composed(raw, s)
                       /\ ev' = <<"mpu.update", "restoreNormalDisplay", "mpu.update",
                                  "readSensors", "lcd.write">>
                       /\ hist' = [hist EXCEPT !.snaps = 1]
    /\ pc' = "loop_client"
    /\ resp' = NoResp
    /\ UNCHANGED <<biasVars, offsetsLoaded, bmp_ok, sinceLcd, prefs, cal, saveIdx,
                   readLog, writeLog>>

\* a variant that leaves the redraw after an alert to the periodic refresh
LoopTopLazyRestore ==
    /\ pc = "loop_top"
    /\ \E level \in BOOLEAN :
         /\ irActive' = level
         /\ lastIrActive' = level
         /\ IF level = lastIrActive \/ ~level
            THEN /\ lcd' = lcd
                 /\ drawn' = <<>>
                 /\ snap' = <<>>
                 /\ ev' = <<"mpu.update">>
                 /\ hist' = hist
            ELSE /\ lcd' = "alert"
                 /\ drawn' = <<AlertLines>>
                 /\ snap' = <<>>
                 /\ ev' = <<"mpu.update", "showIrAlert", "lcd.write">>
                 /\ hist' = hist
    /\ pc' = "loop_client"
    /\ resp' = NoResp
    /\ UNCHANGED <<biasVars, offsetsLoaded, bmp_ok, sinceLcd, prefs, cal, saveIdx,
                   readLog, writeLog>>

\* lines 545-562: estimator update, IR pin, display only on transitions
LoopTop ==
    /\ pc = "loop_top"
    /\ \E level \in BOOLEAN :
         /\ irActive' = level
         /\ lastIrActive' = level
         /\ IF level = lastIrActive
            THEN /\ lcd' = lcd
                 /\ drawn' = <<>>
                 /\ snap' = <<>>
                 /\ ev' = <<"mpu.update">>
                 /\ hist' = hist
            ELSE IF level
            THEN /\ lcd' = "alert"
                 /\ drawn' = <<AlertLines>>
                 /\ snap' = <<>>
                 /\ ev' = <<"mpu.update", "showIrAlert", "lcd.write">>
                 /\ hist' = hist
            ELSE \E raw \in RawSamples, env \in EnvReadings, yaw \in AngleZVals :
                   LET s == ReadSensors(raw, env, yaw)
                   IN  /\ lcd' = "telemetry"
                       /\ drawn' = <<TelemetryLines(s)>>
                       /\ snap' = Composed(raw, s)
                       /\ ev' = <<"mpu.update", "restoreNormalDisplay", "mpu.update",
                                  "readSensors", "lcd.write">>
                       /\ hist' = [hist EXCEPT !.snaps = 1]
    /\ pc' = "loop_client"
    /\ resp' = NoResp
    /\ UNCHANGED <<biasVars, offsetsLoaded, bmp_ok, sinceLcd, prefs, cal, saveIdx,
                   readLog, writeLog>>

\* line 565 with no request waiting
HandleNone ==
    /\ pc = "loop_client"
    /\ pc' = "loop_lcd"
    /\ ev' = <<"server.handleClient">>
    /\ drawn' = <<>> /\ snap' = <<>> /\ resp' = NoResp
    /\ UNCHANGED <<biasVars, offsetsLoaded, bmp_ok, irVars, sinceLcd, prefs, lcd, cal,
                   saveIdx, readLog, writeLog, hist>>

\* checkAuth fails in a handler, lines 207-210, 324-327, 348-351
HandleUnauthorized ==
    /\ pc = "loop_client"
    /\ resp' = [kind |-> "auth"]
    /\ pc' = "loop_lcd"
    /\ ev' = <<"server.handleClient", "requestAuthentication">>
    /\ drawn' = <<>> /\ snap' = <<>>
    /\ UNCHANGED <<biasVars, offsetsLoaded, bmp_ok, irVars, sinceLcd, prefs, lcd, cal,
                   saveIdx, readLog, writeLog, hist>>

\* handleRoot, lines 206-321
HandleRoot ==
    /\ pc = "loop_client"
    /\ resp' = [kind |-> "html"]
    /\ pc' = "loop_lcd"
    /\ ev' = <<"server.handleClient", "handleRoot", "server.send">>
    /\ drawn' = <<>> /\ snap' = <<>>
    /\ UNCHANGED <<biasVars, offsetsLoaded, bmp_ok, irVars, sinceLcd, prefs, lcd, cal,
                   saveIdx, readLog, writeLog, hist>>

\* the JSON body of handleData, lines 331-342
DataJson(r) ==
    [Temperature_C |-> StringDec(r.temperature, EnvDecStep),
     Pressure_hPa  |-> StringDec(r.pressure, EnvDecStep),
     Altitude_m    |-> StringDec(r.altitude, EnvDecStep),
     AngleX |-> StringDec(r.angleX, EnvDecStep),
     AngleY |-> StringDec(r.angleY, EnvDecStep),
     AngleZ |-> StringDec(r.angleZ, EnvDecStep),
     AccX_g |-> StringDec(r.accX, DataAccDecStep),
     AccY_g |-> StringDec(r.accY, DataAccDecStep),
     AccZ_g |-> StringDec(r.accZ, DataAccDecStep)]

\* handleData, lines 323-344
HandleData ==
    /\ pc = "loop_client"
    /\ \E raw \in RawSamples, env \in EnvReadings, yaw \in AngleZVals :
         LET r == ReadSensors(raw, env, yaw)
         IN  /\ resp' = [kind |-> "data", body |-> DataJson(r)]
             /\ snap' = Composed(raw, r)
    /\ hist' = [hist EXCEPT !.snaps = 1]
    /\ pc' = "loop_lcd"
    /\ ev' = <<"server.handleClient", "handleData", "mpu.update", "readSensors", "server.send">>
    /\ drawn' = <<>>
    /\ UNCHANGED <<biasVars, offsetsLoaded, bmp_ok, irVars, sinceLcd, prefs, lcd, cal,
                   saveIdx, readLog, writeLog>>

\* handleCalibrate up to the sampling loop: lines 347-360 and 102-105
CalStart ==
    /\ pc = "loop_client"
    /\ hist.events < MaxEvents
    /\ cal' = NoCal
    /\ hist' = [hist EXCEPT !.events = @ + 1,
                            !.pre = <<[bias |-> Bias, prefs |-> prefs]>>]
    /\ pc' = "cal_sample"
    /\ ev' = <<"server.handleClient", "handleCalibrate", "delay">>
    /\ drawn' = <<>> /\ snap' = <<>> /\ resp' = NoResp
    /\ UNCHANGED <<biasVars, offsetsLoaded, bmp_ok, irVars, sinceLcd, prefs, lcd,
                   saveIdx, readLog, writeLog>>

\* a variant whose sampling loop polls the IR pin
CalSamplePollingIr ==
    /\ pc = "cal_sample"
    /\ cal.i < cal.n
    /\ \E raw \in RawSamples :
         cal' = [cal EXCEPT !.i = @ + 1,
                            !.sums = Accumulate(@, raw),
                            !.first = IF cal.i = 0 THEN <<raw>> ELSE @,
                            !.same = IF cal.i = 0 THEN TRUE ELSE (@ /\ cal.first = <<raw>>)]
    /\ irActive' \in BOOLEAN
    /\ ev' = <<"mpu.update", "delay">>
    /\ drawn' = <<>> /\ snap' = <<>> /\ resp' = NoResp
    /\ UNCHANGED <<pc, biasVars, offsetsLoaded, bmp_ok, lastIrActive, sinceLcd, prefs, lcd,
                   saveIdx, readLog, writeLog, hist>>

\* one pass of the sampling loop, lines 107-125
CalSample ==
    /\ pc = "cal_sample"
    /\ cal.i < cal.n
    /\ \E raw \in RawSamples :
         cal' = [cal EXCEPT !.i = @ + 1,
                            !.sums = Accumulate(@, raw),
                            !.first = IF cal.i = 0 THEN <<raw>> ELSE @,
                            !.same = IF cal.i = 0 THEN TRUE ELSE (@ /\ cal.first = <<raw>>)]
    /\ ev' = <<"mpu.update", "delay">>
    /\ drawn' = <<>> /\ snap' = <<>> /\ resp' = NoResp
    /\ UNCHANGED <<pc, biasVars, offsetsLoaded, bmp_ok, irVars, sinceLcd, prefs, lcd,
                   saveIdx, readLog, writeLog, hist>>

\* the body of the calibration response, lines 384-392
CalibrateJson ==
    [ok |-> TRUE,
     accOffX |-> StringDec(accOffX, AccDecStep),
     accOffY |-> StringDec(accOffY, AccDecStep),
     accOffZ |-> StringDec(accOffZ, AccDecStep),
     gyrOffX |-> StringDec(gyrOffX, GyrDecStep),
     gyrOffY |-> StringDec(gyrOffY, GyrDecStep),
     gyrOffZ |-> StringDec(gyrOffZ, GyrDecStep)]

\* a variant of handleCalibrate that hands the active offsets themselves to
\* the routine as its outputs, so that a failed run overwrites them too
CalFinishOnGlobals ==
    /\ pc = "cal_sample"
    /\ ~(cal.i < cal.n)
    /\ LET mean == Means(cal.sums, cal.n)
           out  == CalOutputs(mean)
           ok   == SanityOk(mean)
       IN  /\ cal' = [cal EXCEPT !.mean = mean, !.out = out, !.ok = ok, !.done = TRUE]
           /\ accOffX' = out.ax /\ accOffY' = out.ay /\ accOffZ' = out.az
           /\ gyrOffX' = out.gx /\ gyrOffY' = out.gy /\ gyrOffZ' = out.gz
           /\ IF ~ok
              THEN /\ resp' = [kind |-> "calibrate", body |-> [ok |-> FALSE]]
                   /\ pc' = "loop_lcd"
                   /\ ev' = <<"server.send">>
                   /\ UNCHANGED hist
              ELSE /\ resp' = NoResp
                   /\ pc' = "save"
                   /\ ev' = <<"install">>
                   /\ hist' = [hist EXCEPT !.installed = out, !.saveFailed = FALSE]
    /\ sinceLcd' = LCD_UPDATE_TICKS + 1
    /\ saveIdx' = 0
    /\ writeLog' = <<>>
    /\ drawn' = <<>> /\ snap' = <<>>
    /\ UNCHANGED <<offsetsLoaded, bmp_ok, irVars, prefs, lcd, readLog>>

\* the loop has ended: means, outputs and sanity check, lines 127-149; then
\* handleCalibrate answers ok:false, lines 366-372, or installs the outputs,
\* lines 374-380.  The run took 200 ms + samples * 3 ms, past LCD_UPDATE_MS.
CalFinish ==
    /\ pc = "cal_sample"
    /\ ~(cal.i < cal.n)
    /\ LET mean == Means(cal.sums, cal.n)
           out  == CalOutputs(mean)
           ok   == SanityOk(mean)
       IN  /\ cal' = [cal EXCEPT !.mean = mean, !.out = out, !.ok = ok, !.done = TRUE]
           /\ IF ~ok
              THEN /\ resp' = [kind |-> "calibrate", body |-> [ok |-> FALSE]]
                   /\ pc' = "loop_lcd"
                   /\ ev' = <<"server.send">>
                   /\ UNCHANGED <<biasVars, hist>>
              ELSE /\ accOffX' = out.ax /\ accOffY' = out.ay /\ accOffZ' = out.az
                   /\ gyrOffX' = out.gx /\ gyrOffY' = out.gy /\ gyrOffZ' = out.gz
                   /\ resp' = NoResp
                   /\ pc' = "save"
                   /\ ev' = <<"install">>
                   /\ hist' = [hist EXCEPT !.installed = out, !.saveFailed = FALSE]
    /\ sinceLcd' = LCD_UPDATE_TICKS + 1
    /\ saveIdx' = 0
    /\ writeLog' = <<>>
    /\ drawn' = <<>> /\ snap' = <<>>
    /\ UNCHANGED <<offsetsLoaded, bmp_ok, irVars, prefs, lcd, readLog>>

\* saveOffsetsToPrefs, lines 72-80: the next put call.  The medium may
\* refuse a write; the code does not look at what the call returns.
SaveStep ==
    /\ pc = "save"
    /\ saveIdx < SavePuts
    /\ LET k == saveIdx + 1
           put == SavePut(k, Bias)
       IN
       \E written \in BOOLEAN :
         /\ written \/ hist.events < MaxEvents
         /\ prefs' = PrefsPut(prefs, put.key, put.val, written)
         /\ writeLog' = Append(writeLog, put)
         /\ saveIdx' = k
         /\ LET failed == hist.saveFailed \/ ~written
                clean  == k = SavePuts /\ ~failed
            IN
            hist' = [hist EXCEPT
                       !.events = IF written THEN @ ELSE @ + 1,
                       !.saveFailed = failed,
                       !.refused = @ \/ ~written,
                       !.dirty = ~clean,
                       !.lastSaved = IF clean THEN <<Bias>> ELSE @,
                       !.completed = IF clean THEN @ \cup {Bias} ELSE @]
    /\ ev' = <<"prefs.put">>
    /\ drawn' = <<>> /\ snap' = <<>> /\ resp' = NoResp
    /\ UNCHANGED <<pc, biasVars, offsetsLoaded, bmp_ok, irVars, sinceLcd, lcd, cal,
                   readLog>>

\* saveOffsetsToPrefs returns, line 81; handleCalibrate answers, lines 384-393
CalRespond ==
    /\ pc = "save"
    /\ saveIdx = SavePuts
    /\ resp' = [kind |-> "calibrate", body |-> CalibrateJson]
    /\ pc' = "loop_lcd"
    /\ ev' = <<"prefs.end", "server.send">>
    /\ drawn' = <<>> /\ snap' = <<>>
    /\ UNCHANGED <<biasVars, offsetsLoaded, bmp_ok, irVars, sinceLcd, prefs, lcd, cal,
                   saveIdx, readLog, writeLog, hist>>

\* a variant whose periodic refresh does not look at the alert
LoopLcdDuringAlert ==
    /\ pc = "loop_lcd"
    /\ IF sinceLcd > LCD_UPDATE_TICKS
       THEN \E raw \in RawSamples, env \in EnvReadings, yaw \in AngleZVals :
              LET s == ReadSensors(raw, env, yaw)
              IN  /\ lcd' = "telemetry"
                  /\ drawn' = <<TelemetryLines(s)>>
                  /\ snap' = Composed(raw, s)
                  /\ sinceLcd' = 1
                  /\ ev' = <<"mpu.update", "readSensors", "updateLCD", "lcd.write", "delay">>
                  /\ hist' = [hist EXCEPT !.snaps = 1, !.pre = <<>>]
       ELSE /\ ev' = <<"delay">>
            /\ drawn' = <<>>
            /\ snap' = <<>>
            /\ hist' = [hist EXCEPT !.pre = <<>>]
            /\ sinceLcd' = sinceLcd + 1
            /\ lcd' = lcd
    /\ cal' = NoCal
    /\ saveIdx' = 0
    /\ writeLog' = <<>>
    /\ resp' = NoResp
    /\ pc' = "loop_top"
    /\ UNCHANGED <<biasVars, offsetsLoaded, bmp_ok, irVars, prefs, readLog>>

\* lines 567-574: the periodic refresh when no alert is shown, then delay(20)
LoopLcd ==
    /\ pc = "loop_lcd"
    /\ IF ~irActive /\ sinceLcd > LCD_UPDATE_TICKS
       THEN \E raw \in RawSamples, env \in EnvReadings, yaw \in AngleZVals :
              LET s == ReadSensors(raw, env, yaw)
              IN  /\ lcd' = "telemetry"
                  /\ drawn' = <<TelemetryLines(s)>>
                  /\ snap' = Composed(raw, s)
                  /\ sinceLcd' = 1
                  /\ ev' = <<"mpu.update", "readSensors", "updateLCD", "lcd.write", "delay">>
                  /\ hist' = [hist EXCEPT !.snaps = 1, !.pre = <<>>]
       ELSE /\ ev' = <<"delay">>
            /\ drawn' = <<>>
            /\ snap' = <<>>
            /\ hist' = [hist EXCEPT !.pre = <<>>]
            /\ sinceLcd' = IF sinceLcd > LCD_UPDATE_TICKS THEN sinceLcd ELSE sinceLcd + 1
            /\ lcd' = lcd
    /\ cal' = NoCal
    /\ saveIdx' = 0
    /\ writeLog' = <<>>
    /\ resp' = NoResp
    /\ pc' = "loop_top"
    /\ UNCHANGED <<biasVars, offsetsLoaded, bmp_ok, irVars, prefs, readLog>>

\* power loss or reset at any point: memory is initialised again as in Init,
\* the store keeps what was written
PowerCycle ==
    /\ hist.events < MaxEvents
    /\ pc' = "setup_init"
    /\ accOffX' = DefAccOffX /\ accOffY' = DefAccOffY /\ accOffZ' = DefAccOffZ
    /\ gyrOffX' = DefGyrOffX /\ gyrOffY' = DefGyrOffY /\ gyrOffZ' = DefGyrOffZ
    /\ offsetsLoaded' = FALSE
    /\ bmp_ok' = FALSE
    /\ lastIrActive' = FALSE /\ irActive' = FALSE
    /\ sinceLcd' = 0
    /\ lcd' = "off"
    /\ drawn' = <<>> /\ snap' = <<>> /\ resp' = NoResp
    /\ cal' = NoCal
    /\ saveIdx' = 0
    /\ ev' = <<"reset">>
    /\ readLog' = <<>>
    /\ writeLog' = <<>>
    /\ hist' = [hist EXCEPT !.events = @ + 1, !.snaps = 0, !.pre = <<>>,
                            !.installed = Defaults, !.saveFailed = FALSE]
    /\ UNCHANGED prefs

Next ==
    \/ SetupInit \/ SetupLoad \/ SetupLcd \/ SetupIr
    \/ LoopTop
    \/ HandleNone \/ HandleUnauthorized \/ HandleRoot \/ HandleData
    \/ CalStart \/ CalSample \/ CalFinish \/ SaveStep \/ CalRespond
    \/ LoopLcd
    \/ PowerCycle

Spec == Init /\ [][Next]_vars

-----------------------------------------------------------------------------
(* Properties *)

\* handleCalibrate has returned and its locals are still in view
CalReturned == pc = "loop_lcd" /\ cal.done

\* the mean accZ of the window just sampled, from the running sum
WindowMeanAz == RoundDiv(cal.sums.sAz, cal.n)

\* the outputs the window just sampled must give
WindowOutputs ==
    [ax |-> RoundDiv(cal.sums.sAx, cal.n),
     ay |-> RoundDiv(cal.sums.sAy, cal.n),
     az |-> RoundDiv(cal.sums.sAz, cal.n) - One,
     gx |-> RoundDiv(cal.sums.sGx, cal.n),
     gy |-> RoundDiv(cal.sums.sGy, cal.n),
     gz |-> RoundDiv(cal.sums.sGz, cal.n)]

\* the put calls of one whole save of model m
PutsOf(m) ==
    << [key |-> "ax", val |-> m.ax], [key |-> "ay", val |-> m.ay],
       [key |-> "az", val |-> m.az], [key |-> "gx", val |-> m.gx],
       [key |-> "gy", val |-> m.gy], [key |-> "gz", val |-> m.gz],
       [key |-> "ok", val |-> TRUE] >>

\* C1: a calibration request whose window has |mean accZ| < 0.5 g answers
\* ok:false and leaves the six active offsets and the store as they were
\* when the request began.
C1_FailedCalibrationChangesNothing ==
    (CalReturned /\ Abs(WindowMeanAz) < Half) =>
        /\ resp = [kind |-> "calibrate", body |-> [ok |-> FALSE]]
        /\ hist.pre # <<>>
        /\ Bias = hist.pre[1].bias
        /\ prefs = hist.pre[1].prefs

\* C1 witness: a request has failed the sanity check while offsets other
\* than the defaults were active and stored.
C1_Witness ==
    /\ CalReturned /\ Abs(WindowMeanAz) < Half
    /\ resp.kind = "calibrate"
    /\ Bias # Defaults
    /\ prefs["ok"] = <<TRUE>>

\* C2 as stated: a request that passes the sanity check ends with the six
\* computed offsets active, one save of exactly those values, and a
\* response that carries ok:true and those same six values.
C2_ResponseCarriesSameValues ==
    (CalReturned /\ Abs(WindowMeanAz) >= Half) =>
        /\ Bias = WindowOutputs
        /\ writeLog = PutsOf(WindowOutputs)
        /\ resp.kind = "calibrate"
        /\ resp.body = [ok |-> TRUE,
                        accOffX |-> WindowOutputs.ax, accOffY |-> WindowOutputs.ay,
                        accOffZ |-> WindowOutputs.az, gyrOffX |-> WindowOutputs.gx,
                        gyrOffY |-> WindowOutputs.gy, gyrOffZ |-> WindowOutputs.gz]

\* C2 amended: a request that passes the sanity check ends with the six
\* computed offsets active, one save of exactly those values, and a
\* response that carries ok:true and those values rounded to 6 decimal
\* places (accelerometer) and 4 decimal places (gyroscope).
C2_SuccessInstallsSavesReports ==
    (CalReturned /\ Abs(WindowMeanAz) >= Half) =>
        /\ Bias = WindowOutputs
        /\ writeLog = PutsOf(WindowOutputs)
        /\ resp.kind = "calibrate"
        /\ resp.body = [ok |-> TRUE,
                        accOffX |-> RoundDiv(WindowOutputs.ax, AccDecStep) * AccDecStep,
                        accOffY |-> RoundDiv(WindowOutputs.ay, AccDecStep) * AccDecStep,
                        accOffZ |-> RoundDiv(WindowOutputs.az, AccDecStep) * AccDecStep,
                        gyrOffX |-> RoundDiv(WindowOutputs.gx, GyrDecStep) * GyrDecStep,
                        gyrOffY |-> RoundDiv(WindowOutputs.gy, GyrDecStep) * GyrDecStep,
                        gyrOffZ |-> RoundDiv(WindowOutputs.gz, GyrDecStep) * GyrDecStep]

\* C2 witness: a successful request has replaced other offsets and answered.
C2_Witness ==
    /\ CalReturned /\ Abs(WindowMeanAz) >= Half
    /\ resp.kind = "calibrate" /\ resp.body.ok
    /\ hist.pre # <<>> /\ hist.pre[1].bias # Bias
    /\ Len(writeLog) = SavePuts

\* C3: within one save the put calls are, in this order, ax, ay, az, gx, gy,
\* gz and then the marker ok = true; so the marker is put after all six
\* fields and no field is put after it.
C3_FieldsBeforeMarker ==
    /\ Len(writeLog) <= 7
    /\ \A j \in 1..Len(writeLog) :
         writeLog[j].key = <<"ax", "ay", "az", "gx", "gy", "gz", "ok">>[j]
    /\ \A j \in 1..Len(writeLog) :
         (writeLog[j].key = "ok") => (writeLog[j].val = TRUE /\ j = Len(writeLog))

\* C3 witness: a save has made all its put calls.
C3_Witness ==
    /\ pc = "save"
    /\ Len(writeLog) = 7
    /\ writeLog[7].key = "ok"

-----------------------------------------------------------------------------
(* doAveragingCalibration on its own, lines 99-150: called with any sample  *)
(* count from 1 up, over a sensor at rest that returns the same vector at   *)
(* every update.                                                            *)

\* the vectors a sensor at rest may return
RestSamples ==
    [ax : {-1, 0, 3}, ay : {0, 2}, az : {-5, -2, -1, 0, 1, 2, 3, One, 5},
     gx : {0, 3}, gy : {4}, gz : {-5, 0}]

InitCal ==
    /\ pc = "engine"
    /\ accOffX = DefAccOffX /\ accOffY = DefAccOffY /\ accOffZ = DefAccOffZ
    /\ gyrOffX = DefGyrOffX /\ gyrOffY = DefGyrOffY /\ gyrOffZ = DefGyrOffZ
    /\ offsetsLoaded = FALSE
    /\ bmp_ok = FALSE
    /\ lastIrActive = FALSE /\ irActive = FALSE
    /\ sinceLcd = 0
    /\ prefs = EmptyPrefs
    /\ lcd = "off"
    /\ drawn = <<>>
    /\ snap = <<>>
    /\ \E n \in 1..MaxCount, r \in RestSamples :
         cal = [NoCal EXCEPT !.n = n, !.first = <<r>>]
    /\ saveIdx = 0
    /\ resp = NoResp
    /\ ev = <<>>
    /\ readLog = <<>>
    /\ writeLog = <<>>
    /\ hist = InitHist

\* one pass of the sampling loop, lines 107-125
DoAveragingCalibrationSample ==
    /\ pc = "engine"
    /\ cal.i < cal.n
    /\ cal' = [cal EXCEPT !.i = @ + 1, !.sums = Accumulate(@, cal.first[1])]
    /\ ev' = <<"mpu.update", "delay">>
    /\ UNCHANGED <<pc, biasVars, offsetsLoaded, bmp_ok, irVars, sinceLcd, prefs, lcd,
                   drawn, snap, saveIdx, resp, readLog, writeLog, hist>>

\* a variant that may give up before the last sample
DoAveragingCalibrationReturnEarly ==
    /\ pc = "engine"
    /\ cal.i >= 1
    /\ LET mean == Means(cal.sums, cal.n)
       IN  cal' = [cal EXCEPT !.mean = mean, !.out = CalOutputs(mean),
                              !.ok = SanityOk(mean), !.done = TRUE]
    /\ pc' = "engine_done"
    /\ ev' = <<"return">>
    /\ UNCHANGED <<biasVars, offsetsLoaded, bmp_ok, irVars, sinceLcd, prefs, lcd,
                   drawn, snap, saveIdx, resp, readLog, writeLog, hist>>

\* a variant that writes its outputs into the active offsets
DoAveragingCalibrationReturnInstalling ==
    /\ pc = "engine"
    /\ ~(cal.i < cal.n)
    /\ LET mean == Means(cal.sums, cal.n)
           out  == CalOutputs(mean)
       IN  /\ cal' = [cal EXCEPT !.mean = mean, !.out = out,
                                 !.ok = SanityOk(mean), !.done = TRUE]
           /\ accOffX' = out.ax /\ accOffY' = out.ay /\ accOffZ' = out.az
           /\ gyrOffX' = out.gx /\ gyrOffY' = out.gy /\ gyrOffZ' = out.gz
    /\ pc' = "engine_done"
    /\ ev' = <<"return">>
    /\ UNCHANGED <<offsetsLoaded, bmp_ok, irVars, sinceLcd, prefs, lcd,
                   drawn, snap, saveIdx, resp, readLog, writeLog, hist>>

\* lines 127-149: means, outputs and return value
DoAveragingCalibrationReturn ==
    /\ pc = "engine"
    /\ ~(cal.i < cal.n)
    /\ LET mean == Means(cal.sums, cal.n)
       IN  cal' = [cal EXCEPT !.mean = mean, !.out = CalOutputs(mean),
                              !.ok = SanityOk(mean), !.done = TRUE]
    /\ pc' = "engine_done"
    /\ ev' = <<"return">>
    /\ UNCHANGED <<biasVars, offsetsLoaded, bmp_ok, irVars, sinceLcd, prefs, lcd,
                   drawn, snap, saveIdx, resp, readLog, writeLog, hist>>

NextCal ==
    \/ DoAveragingCalibrationSample
    \/ DoAveragingCalibrationReturn

SpecCal == InitCal /\ [][NextCal]_vars

\* the routine runs on: neither the loop nor the return waits for anything
\* but delay()
SpecCalFair == SpecCal /\ WF_vars(NextCal)

\* C9: when every sample of the window is the same vector (bx, by, 1 + bz),
\* (gx, gy, gz) with |1 + bz| >= 0.5, then for every sample count from 1 up
\* the calibration succeeds with accelerometer offsets exactly (bx, by, bz)
\* and gyroscope offsets exactly (gx, gy, gz); a constant (0, 0, 1) window
\* gives accelerometer offsets (0, 0, 0).
C9_ConstantWindowRecoversBias ==
    (pc = "engine_done" /\ Abs(cal.first[1].az) >= Half) =>
        LET r == cal.first[1]
        IN  /\ cal.ok
            /\ cal.out = [ax |-> r.ax, ay |-> r.ay, az |-> r.az - One,
                          gx |-> r.gx, gy |-> r.gy, gz |-> r.gz]
            /\ (r.ax = 0 /\ r.ay = 0 /\ r.az = One) =>
                   (cal.out.ax = 0 /\ cal.out.ay = 0 /\ cal.out.az = 0)

\* C9 witness: a window of several equal samples, tilted, biased and with
\* gyroscope drift, has been averaged.
C9_Witness ==
    /\ pc = "engine_done"
    /\ cal.i > 1
    /\ cal.first[1] = [ax |-> 3, ay |-> 2, az |-> 5, gx |-> 3, gy |-> 4, gz |-> -5]
    /\ cal.out.az = 1

\* startup has just run loadOffsetsFromPrefs
JustLoaded == pc = "setup_lcd"

\* C4 as stated: whatever saves came before, after a power loss in the
\* middle of a save the next startup load leaves either the compiled-in
\* defaults or the six values of one completed save in memory, never a
\* mixture.  (Stated for stores that never refused a write.)
C4_LoadNeverInstallsMixture ==
    (JustLoaded /\ ~hist.refused) =>
        (Bias = Defaults \/ Bias \in hist.completed)

SaveCompleted == pc = "save" /\ saveIdx = SavePuts /\ ~hist.saveFailed

\* C6: once Save(m) has completed, Load gives back the six offsets of m,
\* whatever offsets are in memory when it runs, and reads the marker as true.
C6_SaveLoadRoundTrip ==
    SaveCompleted =>
        \A cur \in {Defaults, ZeroModel, Bias} :
            LET r == LoadOffsets(prefs, cur)
            IN  /\ [ax |-> r.ax, ay |-> r.ay, az |-> r.az,
                    gx |-> r.gx, gy |-> r.gy, gz |-> r.gz] = Bias
                /\ r.loaded
                /\ PrefsGet(prefs, "ok", FALSE) = TRUE

\* C6 witness: a save of offsets other than the defaults has completed over
\* a store that held other values.
C6_Witness ==
    /\ SaveCompleted
    /\ Bias # Defaults
    /\ hist.pre # <<>> /\ hist.pre[1].prefs["ok"] = <<TRUE>>
    /\ hist.pre[1].prefs # prefs

\* C7: the load reads the marker first; when the marker is absent or false
\* it reads nothing else, the active offsets stay the compiled-in defaults,
\* offsetsLoaded stays false, and setup goes on.
C7_AbsentMarkerLoadsNothing ==
    /\ (readLog # <<>>) => (readLog[1] = "ok")
    /\ (JustLoaded /\ ~PrefsGet(prefs, "ok", FALSE)) =>
          /\ readLog = <<"ok">>
          /\ Bias = Defaults
          /\ ~offsetsLoaded
          /\ ENABLED SetupLcd

\* C7 witness: startup has run the load on a store that holds fields of an
\* interrupted save but no marker.
C7_Witness ==
    /\ JustLoaded
    /\ prefs["ok"] = <<>>
    /\ prefs["ax"] # <<>>
    /\ readLog = <<"ok">>

\* C8 as stated: when the store refuses a write during the save of a
\* successful calibration, the response reports the failure, and the six
\* active offsets are the newly computed ones.
C8_RefusedWriteIsReported ==
    (CalReturned /\ Abs(WindowMeanAz) >= Half /\ hist.saveFailed) =>
        /\ resp.kind = "calibrate"
        /\ ~resp.body.ok
        /\ Bias = WindowOutputs

\* C10: every snapshot's accX, accY, accZ are the raw sample minus the
\* offsets installed by the latest load or successful calibration (the
\* defaults before any); so a raw sample of bias + (0, 0, 1) gives (0, 0, 1).
C10_SnapshotSubtractsActiveBias ==
    (snap # <<>>) =>
        LET raw == snap[1].raw
            out == snap[1].out
            b   == hist.installed
        IN  /\ out.accX = raw.ax - b.ax
            /\ out.accY = raw.ay - b.ay
            /\ out.accZ = raw.az - b.az
            /\ (raw.ax = b.ax /\ raw.ay = b.ay /\ raw.az = b.az + One) =>
                   (out.accX = 0 /\ out.accY = 0 /\ out.accZ = One)

\* C10 witness: a snapshot of a raw sample equal to bias + (0, 0, 1), taken
\* under offsets installed by a calibration.
C10_Witness ==
    /\ snap # <<>>
    /\ hist.installed # Defaults
    /\ hist.lastSaved = <<hist.installed>>
    /\ snap[1].raw.ax = hist.installed.ax
    /\ snap[1].raw.ay = hist.installed.ay
    /\ snap[1].raw.az = hist.installed.az + One
    /\ snap[1].out.accZ = One

-----------------------------------------------------------------------------
(* Environmental passthrough *)

\* readSensors lines 158-161: the reading r with the environmental fields
\* an available BMP280 returning env gives
AvailableReading(r, env) ==
    [r EXCEPT !.temperature = env.t,
              !.pressure = RoundDiv(env.p, 100),
              !.altitude = env.a]

\* C11 as stated: when the BMP280 is unavailable, every snapshot, and every
\* /data response made from it, has temperature, pressure and altitude zero
\* and differs from every snapshot (response) an available sensor can give,
\* one that reads zero included.
C11_UnavailableIsDistinguishable ==
    (~bmp_ok /\ snap # <<>>) =>
        LET r == snap[1].out
        IN  /\ r.temperature = 0 /\ r.pressure = 0 /\ r.altitude = 0
            /\ \A env \in EnvReadings : r # AvailableReading(r, env)
            /\ (resp.kind = "data") =>
                  \A env \in EnvReadings :
                      resp.body # DataJson(AvailableReading(r, env))

-----------------------------------------------------------------------------
(* Display arbiter *)

Range(s) == {s[i] : i \in DOMAIN s}

\* what the calls of a step say about the arbiter, lines 549-560:
\* showIrAlert is Normal -> Alert, restoreNormalDisplay is Alert -> Normal
Transition(e) ==
    IF "showIrAlert" \in Range(e) THEN "Normal->Alert"
    ELSE IF "restoreNormalDisplay" \in Range(e) THEN "Alert->Normal"
    ELSE "none"

\* control is at the top of the first pass of loop() after setup()
FirstIteration ==
    pc = "loop_top" /\ ev # <<>> /\ ev[1] \in {"showIrAlert", "restoreNormalDisplay"}

\* the alert input as it was sampled last: by the pass before, line 548, or
\* by setup, line 535, when there was no pass before
PrevInput == IF FirstIteration THEN lastIrActive ELSE irActive

\* C12: in every pass of loop() the arbiter goes Normal -> Alert exactly
\* when the sampled alert input rose since the sample before, Alert -> Normal
\* exactly when it fell, and makes no transition otherwise.
C12_TransitionsExactlyOnEdges ==
    [][(pc = "loop_top" /\ pc' = "loop_client") =>
          Transition(ev') =
              IF ~PrevInput /\ irActive' THEN "Normal->Alert"
              ELSE IF PrevInput /\ ~irActive' THEN "Alert->Normal"
              ELSE "none"]_vars

\* C12 witness: a pass has just sampled a risen input and made the
\* Normal -> Alert transition, after a snapshot was drawn in Normal.
C12_Witness ==
    /\ pc = "loop_client"
    /\ irActive /\ lastIrActive
    /\ Transition(ev) = "Normal->Alert"
    /\ lcd = "alert"
    /\ hist.snaps = 1

\* setup found the alert input asserted: it drew the alert, lines 536-537
BootAsserted == FirstIteration /\ ev[1] = "showIrAlert"

\* C13: the arbiter starts in the state of the alert input sampled by setup:
\* with the input asserted at boot setup draws the alert message and the
\* arbiter starts in Alert, otherwise it starts in Normal; and the first pass
\* of loop() makes no transition when the input is what it was at boot.
C13_InitialStateFromStartupInput ==
    /\ [](FirstIteration =>
             /\ lastIrActive = BootAsserted
             /\ BootAsserted => (lcd = "alert" /\ drawn = <<AlertLines>>))
    /\ [][(FirstIteration /\ pc' = "loop_client" /\ irActive' = BootAsserted) =>
             (Transition(ev') = "none" /\ drawn' = <<>> /\ lcd' = lcd)]_vars

\* C13 witness: setup found the alert asserted, drew the alert message and
\* left the arbiter in Alert.
C13_Witness ==
    /\ BootAsserted
    /\ lastIrActive
    /\ ~irActive
    /\ lcd = "alert"

\* C14: while the arbiter stays in Alert, from the pass that drew the alert
\* message to the pass in which the input falls, no step of loop() writes to
\* the display: not the periodic refresh, not a request handler, not a
\* calibration.
C14_NoDisplayWriteInAlert ==
    [][(lastIrActive /\ lastIrActive') =>
          /\ lcd' = lcd
          /\ drawn' = <<>>
          /\ "lcd.write" \notin Range(ev')]_vars

\* C14 witness: in Alert, with the periodic refresh overdue, a pass has
\* reached its end and the display still shows the alert message.
C14_Witness ==
    /\ pc = "loop_top"
    /\ lastIrActive /\ irActive
    /\ sinceLcd > LCD_UPDATE_TICKS
    /\ ev = <<"delay">>
    /\ lcd = "alert"

\* C15: a pass of loop() whose sample ends an alert composes a snapshot and
\* draws it in that same pass, whether or not the periodic refresh is due;
\* a pass whose sample starts an alert draws the fixed alert message in that
\* same pass.
C15_EdgesRenderInSamePass ==
    [][(pc = "loop_top" /\ pc' = "loop_client") =>
          /\ (lastIrActive /\ ~irActive') =>
                /\ snap' # <<>>
                /\ "readSensors" \in Range(ev')
                /\ drawn' = <<TelemetryLines(snap'[1].out)>>
                /\ lcd' = "telemetry"
          /\ (~lastIrActive /\ irActive') =>
                /\ drawn' = <<AlertLines>>
                /\ lcd' = "alert"]_vars

\* C15 witness: an alert has just ended and the display was redrawn with a
\* snapshot although the periodic refresh was not due.
C15_Witness ==
    /\ pc = "loop_client"
    /\ ~irActive
    /\ Transition(ev) = "Alert->Normal"
    /\ snap # <<>>
    /\ drawn = <<TelemetryLines(snap[1].out)>>
    /\ sinceLcd <= LCD_UPDATE_TICKS

-----------------------------------------------------------------------------
(* Calibration and the control loop *)

\* a step of a calibration run: one pass of the sampling loop or the return
CalRunStep == pc = "cal_sample" /\ pc' # "setup_init"

\* what a step of a calibration run leaves alone: no telemetry response, no
\* snapshot, no drawing, no arbiter step
CalRunBlocks ==
    /\ resp'.kind # "data"
    /\ snap' = <<>>
    /\ "readSensors" \notin Range(ev')
    /\ drawn' = <<>> /\ lcd' = lcd
    /\ "lcd.write" \notin Range(ev')
    /\ irActive' = irActive /\ lastIrActive' = lastIrActive
    /\ Transition(ev') = "none"

\* C16 as stated: from the start of a calibration run until it returns no
\* telemetry request is served, no display refresh or arbiter transition is
\* made, and mpu.update is not called.
C16_NoEstimatorUpdateInCalibration ==
    [][CalRunStep => (CalRunBlocks /\ "mpu.update" \notin Range(ev'))]_vars

\* C16, amended: from the start of a calibration run until it returns no
\* telemetry request is served and no display refresh or arbiter transition
\* is made; mpu.update is called by the run itself, once for each sample it
\* reads, and by nothing else.
C16_CalibrationBlocksLoop ==
    [][CalRunStep =>
          /\ CalRunBlocks
          /\ ("mpu.update" \in Range(ev')) = (cal'.i = cal.i + 1)
          /\ cal'.i \in {cal.i, cal.i + 1}]_vars

\* C16 witness: a run has read all its samples, each after an mpu.update,
\* and has not returned yet.
C16_Witness ==
    /\ pc = "cal_sample"
    /\ cal.i = cal.n
    /\ ev = <<"mpu.update", "delay">>
    /\ lastIrActive

\* C17: every started run of doAveragingCalibration returns, after it has
\* read exactly `samples` samples, one per pass; the sanity check is made
\* at the return, after the last sample, and the run ends either in success
\* or in failure of the sanity check.
C17_CalibrationRunsToCompletion ==
    /\ (pc = "engine") ~> (pc = "engine_done")
    /\ [](pc = "engine" => (~cal.done /\ cal.i <= cal.n))
    /\ [](pc = "engine_done" =>
             /\ cal.done
             /\ cal.i = cal.n
             /\ cal.ok = SanityOk(Means(cal.sums, cal.n)))
    /\ [][/\ cal'.i \in {cal.i, cal.i + 1}
          /\ cal'.n = cal.n
          /\ (cal'.done /\ ~cal.done) => (cal.i = cal.n /\ cal'.i = cal.n)]_vars

\* C17 witness: a run of more than one sample has read all of them and
\* ended in failure of the sanity check.
C17_Witness ==
    /\ pc = "engine_done"
    /\ cal.n > 1
    /\ cal.i = cal.n
    /\ cal.done /\ ~cal.ok

\* C18: doAveragingCalibration itself leaves the active offsets,
\* offsetsLoaded and the store as they were when it was called, while it
\* samples and when it returns, with success or with failure; what it
\* writes are its own outputs, mean - (0, 0, 1) and the gyroscope mean.
C18_EngineLeavesSharedStateAlone ==
    /\ Bias = Defaults
    /\ ~offsetsLoaded
    /\ prefs = EmptyPrefs
    /\ (pc = "engine") => (cal.out = ZeroModel)
    /\ (pc = "engine_done") => (cal.out = CalOutputs(Means(cal.sums, cal.n)))

\* C18 witness: the routine has returned success with outputs that differ
\* from the active offsets, and the active offsets and the store are
\* untouched.
C18_Witness ==
    /\ pc = "engine_done"
    /\ cal.ok
    /\ cal.out # Bias
    /\ cal.out # ZeroModel
    /\ Bias = Defaults
    /\ prefs = EmptyPrefs

-----------------------------------------------------------------------------
(* The active offsets as a whole *)

\* the six offsets loadOffsetsFromPrefs leaves in memory, lines 87-93
LoadedModel(store, cur) ==
    LET r == LoadOffsets(store, cur)
    IN  [ax |-> r.ax, ay |-> r.ay, az |-> r.az, gx |-> r.gx, gy |-> r.gy, gz |-> r.gz]

-----------------------------------------------------------------------------
(* The store against the active offsets *)

\* the six stored offsets are the active ones
PersistedIsActive == \A i \in DOMAIN FloatKeys : prefs[FloatKeys[i]] = <<Bias[FloatKeys[i]]>>

\* C20: over a store that has never refused a write, at the top of every
\* pass of loop(): when the stored marker ok is true, the six stored offsets
\* equal the active offsets, whatever calibration and telemetry requests
\* came before; and a marker that is true stays true.
C20_MarkerImpliesPersistedIsActive ==
    /\ []((pc = "loop_top" /\ ~hist.refused /\ PrefsGet(prefs, "ok", FALSE)) =>
             PersistedIsActive)
    /\ [][(prefs["ok"] = <<TRUE>>) => (prefs'["ok"] = <<TRUE>>)]_vars

\* C20 witness: between two passes, after a calibration of this session was
\* saved and with another calibration request or a restart behind it, the
\* marker is true and the store holds the active offsets, which are not the
\* defaults.
C20_Witness ==
    /\ pc = "loop_top"
    /\ ~hist.refused
    /\ prefs["ok"] = <<TRUE>>
    /\ PersistedIsActive
    /\ Bias # Defaults
    /\ hist.lastSaved = <<Bias>>
    /\ hist.events >= 2
    /\ ~offsetsLoaded

-----------------------------------------------------------------------------
(* handleCalibrate from the end of the sampling loop, lines 127-149 and     *)
(* 366-393, over every window sum: means on, just under and just over the   *)
(* threshold of the sanity check, of either sign.                           *)

\* the sums a window of SAMPLES samples may leave
WindowSums ==
    [sAx : {0, SAMPLES}, sAy : {0},
     sAz : (0 - (One + 1) * SAMPLES)..((One + 1) * SAMPLES),
     sGx : {0, 3 * SAMPLES}, sGy : {0}, sGz : {0}]

\* the store after a completed save of a level calibration
StoredLevel == [k \in Keys |-> IF k = "ok" THEN <<TRUE>> ELSE <<0>>]

InitFinish ==
    /\ pc = "cal_sample"
    /\ prefs \in {EmptyPrefs, StoredLevel}
    /\ offsetsLoaded = PrefsGet(prefs, "ok", FALSE)
    /\ accOffX = LoadedModel(prefs, Defaults).ax
    /\ accOffY = LoadedModel(prefs, Defaults).ay
    /\ accOffZ = LoadedModel(prefs, Defaults).az
    /\ gyrOffX = LoadedModel(prefs, Defaults).gx
    /\ gyrOffY = LoadedModel(prefs, Defaults).gy
    /\ gyrOffZ = LoadedModel(prefs, Defaults).gz
    /\ bmp_ok = FALSE
    /\ lastIrActive = FALSE /\ irActive = FALSE
    /\ sinceLcd = 1
    /\ lcd = "telemetry"
    /\ drawn = <<>>
    /\ snap = <<>>
    /\ \E s \in WindowSums : cal = [NoCal EXCEPT !.i = SAMPLES, !.sums = s]
    /\ saveIdx = 0
    /\ resp = NoResp
    /\ ev = <<"mpu.update", "delay">>
    /\ readLog = LoadOffsets(prefs, Defaults).keys
    /\ writeLog = <<>>
    /\ hist = [InitHist EXCEPT
                 !.events = 1, !.snaps = 1,
                 !.pre = <<[bias |-> Bias, prefs |-> prefs]>>,
                 !.lastSaved = IF prefs = EmptyPrefs THEN <<>> ELSE <<ZeroModel>>,
                 !.completed = IF prefs = EmptyPrefs THEN {} ELSE {ZeroModel},
                 !.installed = Bias]

NextFinish == CalFinish \/ SaveStep \/ CalRespond

SpecFinish == InitFinish /\ [][NextFinish]_vars

====
